---- MODULE Spec2Model ----
(***************************************************************************)
(* Model of fprime2yamcs: the F Prime dictionary loader                    *)
(* (fprime_parser.py) and the translation script (main.py) that feeds the  *)
(* YAMCS mission database generator.                                       *)
(*                                                                         *)
(* Python dicts keep insertion order, so a dict is modelled as a sequence  *)
(* of <<key, value>> pairs with unique keys.  Names are TLA+ strings, so   *)
(* that the f-string of _format_type_name and str.removeprefix are really  *)
(* computed.  The generator object (YAMCSMDBGen) is an external package:   *)
(* only the sequence of calls made on it is recorded, in mdb.              *)
(***************************************************************************)
EXTENDS Integers, Sequences, FiniteSets, TLC

VARIABLES
    data,           \* DeploymentDictLoader.data: the loaded JSON dictionary
    packets_xml,    \* the <packet> elements of the packets XML, in document order
    stringTypes,    \* DeploymentDictLoader.stringTypes
    types_decl,     \* main.py types_decl
    channels_types, \* main.py channels_types
    commands,       \* main.py commands
    packets,        \* main.py packets
    array_sizes,    \* main.py array_sizes
    mdb,            \* calls made on yamcs_gen, in order
    stdout,         \* diagnostics printed by the command loop and the last line
    pc,             \* position in the script
    idx             \* position of the running for loop

vars == <<data, packets_xml, stringTypes, types_decl, channels_types, commands,
          packets, array_sizes, mdb, stdout, pc, idx>>

(***************************************************************************)
(* Bounds of the model.                                                    *)
(***************************************************************************)
MaxTypes == 3       \* longest typeDefinitions list
MaxStrSize == 20    \* largest string size in the size-injectivity check

(***************************************************************************)
(* Python values.                                                          *)
(***************************************************************************)
\* Python's None, as returned by dict.get for a missing key.  No name of the
\* dictionary can contain '<'.
NoneVal == "<None>"

\* Ordered dict operations.
Keys(d) == {d[i][1] : i \in 1..Len(d)}

HasKey(d, k) == k \in Keys(d)

Get(d, k) == d[CHOOSE i \in 1..Len(d) : d[i][1] = k][2]

\* dict.get(k): the value, or None.
GetOrNone(d, k) == IF HasKey(d, k) THEN Get(d, k) ELSE NoneVal

\* d[k] = v: replaces the value in place, or appends a new key.
Put(d, k, v) ==
    IF HasKey(d, k)
    THEN [i \in 1..Len(d) |-> IF d[i][1] = k THEN <<k, v>> ELSE d[i]]
    ELSE Append(d, <<k, v>>)

\* str(n) for one decimal digit.
Digit(n) ==
    CASE n = 0 -> "0" [] n = 1 -> "1" [] n = 2 -> "2" [] n = 3 -> "3"
      [] n = 4 -> "4" [] n = 5 -> "5" [] n = 6 -> "6" [] n = 7 -> "7"
      [] n = 8 -> "8" [] n = 9 -> "9"

RECURSIVE NatToStr(_)
NatToStr(n) == IF n < 10 THEN Digit(n) ELSE NatToStr(n \div 10) \o Digit(n % 10)

\* str(n) of a Python int, as the f-string formats it.
IntToStr(n) == IF n < 0 THEN "-" \o NatToStr(0 - n) ELSE NatToStr(n)

\* str.removeprefix.
RemovePrefix(s, prefix) ==
    IF Len(s) >= Len(prefix) /\ SubSeq(s, 1, Len(prefix)) = prefix
    THEN SubSeq(s, Len(prefix) + 1, Len(s))
    ELSE s

(***************************************************************************)
(* fprime_parser.py: DeploymentDictLoader.                                 *)
(***************************************************************************)
\* Faulty variant: the size is left out of a string type's name.
FormatTypeNameNoSize(type_info) == type_info.name

\* _format_type_name: the returned name.
FormatTypeName(type_info) ==
    IF type_info.kind = "string"
    THEN type_info.name \o IntToStr(type_info.size)
    ELSE type_info.name

\* _format_type_name: what the call adds to self.stringTypes.
FormatTypeStrings(type_info) ==
    IF type_info.kind = "string" THEN {FormatTypeName(type_info)} ELSE {}

\* raw_definitions = {t['qualifiedName']: t for t in typeDefinitions}
RECURSIVE RawDefinitions(_)
RawDefinitions(defs) ==
    IF defs = <<>> THEN <<>>
    ELSE LET front == SubSeq(defs, 1, Len(defs) - 1)
             t == defs[Len(defs)]
         IN Put(RawDefinitions(front), t.qualifiedName, t)

\* {const['name']: const['value'] for const in enumeratedConstants}
RECURSIVE EnumValues(_)
EnumValues(consts) ==
    IF consts = <<>> THEN <<>>
    ELSE LET front == SubSeq(consts, 1, Len(consts) - 1)
             c == consts[Len(consts)]
         IN Put(EnumValues(front), c.name, c.value)

\* The processed entry of one raw definition (one turn of the loop body).
ProcessedType(type_info) ==
    IF type_info.kind = "struct" THEN
        [kind |-> "struct",
         members |-> [i \in 1..Len(type_info.members) |->
                        <<type_info.members[i][1],
                          FormatTypeName(type_info.members[i][2].type)>>]]
    ELSE IF type_info.kind = "array" THEN
        [kind |-> "array",
         size |-> type_info.size,
         elementType |-> FormatTypeName(type_info.elementType)]
    ELSE IF type_info.kind = "enum" THEN
        [kind |-> "enum",
         representationtype |-> FormatTypeName(type_info.representationType),
         values |-> EnumValues(type_info.enumeratedConstants)]
    ELSE [kind |-> "native"]

\* The string types one raw definition registers while it is processed.
ProcessedStrings(type_info) ==
    IF type_info.kind = "struct" THEN
        UNION {FormatTypeStrings(type_info.members[i][2].type) :
                 i \in 1..Len(type_info.members)}
    ELSE IF type_info.kind = "array" THEN FormatTypeStrings(type_info.elementType)
    ELSE IF type_info.kind = "enum" THEN FormatTypeStrings(type_info.representationType)
    ELSE {}

\* _get_types_decl: the returned dict.
GetTypesDecl(d) ==
    LET raw == RawDefinitions(d.typeDefinitions)
    IN [i \in 1..Len(raw) |-> <<raw[i][1], ProcessedType(raw[i][2])>>]

\* _get_types_decl: the names it adds to self.stringTypes.
GetTypesDeclStrings(d) ==
    LET raw == RawDefinitions(d.typeDefinitions)
    IN UNION {ProcessedStrings(raw[i][2]) : i \in 1..Len(raw)}

\* _get_channel_types: the returned dict.
RECURSIVE ChannelTypesOf(_)
ChannelTypesOf(chans) ==
    IF chans = <<>> THEN <<>>
    ELSE LET front == SubSeq(chans, 1, Len(chans) - 1)
             channel == chans[Len(chans)]
         IN Put(ChannelTypesOf(front), channel.name, FormatTypeName(channel.type))

GetChannelTypes(d) == ChannelTypesOf(d.telemetryChannels)

\* _get_channel_types: the names it adds to self.stringTypes.
GetChannelTypesStrings(d) ==
    UNION {FormatTypeStrings(d.telemetryChannels[i].type) :
             i \in 1..Len(d.telemetryChannels)}

\* The formalParams of a command, or none when the key is missing.
FormalParams(command) ==
    IF "formalParams" \in DOMAIN command THEN command.formalParams ELSE <<>>

\* _get_commands: the returned dict; each argument is a one-entry dict
\* {name: type}, modelled as the pair <<name, type>>.
RECURSIVE CommandsOf(_)
CommandsOf(cmds) ==
    IF cmds = <<>> THEN <<>>
    ELSE LET front == SubSeq(cmds, 1, Len(cmds) - 1)
             command == cmds[Len(cmds)]
             params == FormalParams(command)
         IN Put(CommandsOf(front), command.name,
                [opcode |-> command.opcode,
                 args |-> [i \in 1..Len(params) |->
                             <<params[i].name, FormatTypeName(params[i].type)>>]])

GetCommands(d) == CommandsOf(d.commands)

CommandStrings(command) ==
    UNION {FormatTypeStrings(FormalParams(command)[j].type) :
             j \in 1..Len(FormalParams(command))}

\* _get_commands: the names it adds to self.stringTypes.
GetCommandsStrings(d) ==
    UNION {CommandStrings(d.commands[i]) : i \in 1..Len(d.commands)}

\* Every order in which Python may iterate over a set of strings.
Orders(S) ==
    {o \in [1..Cardinality(S) -> S] : \A i, j \in 1..Cardinality(S) : o[i] = o[j] => i = j}

\* for s in self.stringTypes: typesDecl[s] = {'kind': 'native'}
RECURSIVE AddStringTypes(_, _)
AddStringTypes(decl, order) ==
    IF order = <<>> THEN decl
    ELSE AddStringTypes(Put(decl, Head(order), [kind |-> "native"]), Tail(order))

\* The strings parse() has registered once its three extractions are done.
ParseStrings(d) ==
    GetTypesDeclStrings(d) \cup GetChannelTypesStrings(d) \cup GetCommandsStrings(d)

\* PacketsListLoader.get_packets: {int(id): {name, channels}} in document order.
RECURSIVE GetPackets(_)
GetPackets(xml) ==
    IF xml = <<>> THEN <<>>
    ELSE LET front == SubSeq(xml, 1, Len(xml) - 1)
             packet == xml[Len(xml)]
         IN Put(GetPackets(front), packet.id,
                [name |-> packet.name, channels |-> packet.channels])

(***************************************************************************)
(* Readings of a type table, used by the properties.                  *)
(***************************************************************************)
\* Names a processed type entry refers to.
TypeRefs(type_info) ==
    IF type_info.kind = "struct"
    THEN {type_info.members[i][2] : i \in 1..Len(type_info.members)}
    ELSE IF type_info.kind = "array" THEN {type_info.elementType}
    ELSE IF type_info.kind = "enum" THEN {type_info.representationtype}
    ELSE {}

\* Every name a type table mentions, and one it does not.
TableNames(decl) ==
    Keys(decl) \cup UNION {TypeRefs(decl[i][2]) : i \in 1..Len(decl)} \cup {"Absent"}

KindOf(decl, n) == IF HasKey(decl, n) THEN Get(decl, n).kind ELSE "absent"

(***************************************************************************)
(* main.py: helper functions.                                              *)
(***************************************************************************)
\* Faulty variant: a struct is looked at one level deep only.
type_contains_array_shallow(type_name, decl) ==
    IF HasKey(decl, type_name) THEN
        LET type_info == Get(decl, type_name)
        IN IF type_info.kind = "array" THEN TRUE
           ELSE IF type_info.kind = "struct" THEN
               \E i \in 1..Len(type_info.members) :
                   /\ HasKey(decl, type_info.members[i][2])
                   /\ Get(decl, type_info.members[i][2]).kind = "array"
           ELSE FALSE
    ELSE FALSE

\* type_contains_array; any() over the members' types.
RECURSIVE type_contains_array(_, _)
type_contains_array(type_name, decl) ==
    IF HasKey(decl, type_name) THEN
        LET type_info == Get(decl, type_name)
        IN IF type_info.kind = "array" THEN TRUE
           ELSE IF type_info.kind = "struct" THEN
               \E i \in 1..Len(type_info.members) :
                   type_contains_array(type_info.members[i][2], decl)
           ELSE FALSE
    ELSE FALSE

\* remove_prefix_from_dict on channels_types: keys and string values.
RECURSIVE RemovePrefixFromChannels(_, _)
RemovePrefixFromChannels(d, prefix) ==
    IF d = <<>> THEN <<>>
    ELSE LET front == SubSeq(d, 1, Len(d) - 1)
             item == d[Len(d)]
         IN Put(RemovePrefixFromChannels(front, prefix),
                RemovePrefix(item[1], prefix), RemovePrefix(item[2], prefix))

\* remove_prefix_from_value on one command: the opcode is a number and is
\* left alone; the args list is processed item by item, key and value.
RemovePrefixFromCommand(cmd_info, prefix) ==
    [opcode |-> cmd_info.opcode,
     args |-> [i \in 1..Len(cmd_info.args) |->
                 <<RemovePrefix(cmd_info.args[i][1], prefix),
                   RemovePrefix(cmd_info.args[i][2], prefix)>>]]

\* remove_prefix_from_dict on commands.
RECURSIVE RemovePrefixFromCommands(_, _)
RemovePrefixFromCommands(d, prefix) ==
    IF d = <<>> THEN <<>>
    ELSE LET front == SubSeq(d, 1, Len(d) - 1)
             item == d[Len(d)]
         IN Put(RemovePrefixFromCommands(front, prefix),
                RemovePrefix(item[1], prefix),
                RemovePrefixFromCommand(item[2], prefix))

\* The command loop's scan of one command: the position of the first
\* argument whose type contains an array, or 0 when the scan ends without one.
FirstArrayArg(args, decl) ==
    LET bad == {i \in 1..Len(args) : type_contains_array(args[i][2], decl)}
    IN IF bad = {} THEN 0 ELSE CHOOSE i \in bad : \A j \in bad : i <= j

\* Faulty variant: only the first argument is looked at.
ContainsArrayArgFirstOnly(args, decl) ==
    Len(args) > 0 /\ type_contains_array(args[1][2], decl)

\* contains_array_arg once the scan is over.
ContainsArrayArg(args, decl) == FirstArrayArg(args, decl) # 0

\* The parameters command.addParam has put into the Command object once the
\* scan is over: every argument before the break.
CommandParams(args, decl) ==
    IF ContainsArrayArg(args, decl)
    THEN SubSeq(args, 1, FirstArrayArg(args, decl) - 1)
    ELSE args

\* Faulty variant: a struct channel is expanded to the size of its first array member.
PacketFieldExpandingStructs(channel_name, chan_types, sizes) ==
    LET channel_type == GetOrNone(chan_types, channel_name)
        inner == IF KindOf(types_decl, channel_type) = "struct"
                 THEN {m \in TypeRefs(Get(types_decl, channel_type)) : HasKey(sizes, m)}
                 ELSE {}
    IN IF HasKey(sizes, channel_type)
       THEN [call |-> "addArray", name |-> channel_name, type |-> channel_type,
             length |-> Get(sizes, channel_type)]
       ELSE IF inner # {}
       THEN [call |-> "addArray", name |-> channel_name, type |-> channel_type,
             length |-> Get(sizes, CHOOSE m \in inner : TRUE)]
       ELSE [call |-> "addParam", name |-> channel_name, type |-> channel_type]

\* One field of a TMPacket: addArray or addParam for a listed channel.
PacketField(channel_name, chan_types, sizes) ==
    LET channel_type == GetOrNone(chan_types, channel_name)
    IN IF HasKey(sizes, channel_type)
       THEN [call |-> "addArray", name |-> channel_name, type |-> channel_type,
             length |-> Get(sizes, channel_type)]
       ELSE [call |-> "addParam", name |-> channel_name, type |-> channel_type]

\* Faulty variant: a channel missing from the channel mapping gets no field.
PacketFieldsSkippingUnknown(channels, chan_types, sizes) ==
    LET known == SelectSeq(channels, LAMBDA c : HasKey(chan_types, c))
    IN [i \in 1..Len(known) |-> PacketField(known[i], chan_types, sizes)]

\* The fields of one TMPacket, in the order the packet lists its channels.
PacketFields(channels, chan_types, sizes) ==
    [i \in 1..Len(channels) |-> PacketField(channels[i], chan_types, sizes)]

(***************************************************************************)
(* Inputs: the dictionaries and packet lists the runs are checked on.      *)
(***************************************************************************)
\* The deployment name read_inputs takes from the file names.
DeplName == "Ref"

TypeRef(n, k) == [name |-> n, kind |-> k]

StringRef(n) == [name |-> "string", kind |-> "string", size |-> n]

Member(n, t) == <<n, [type |-> t]>>

\* Sizes an array declaration may carry in the JSON.
ArraySizes == {10, 0, -1}

DeclF32 == [qualifiedName |-> "F32", kind |-> "native"]

DeclE ==
    [qualifiedName |-> "E", kind |-> "enum",
     representationType |-> TypeRef("U8", "integer"),
     enumeratedConstants |-> <<[name |-> "OK", value |-> 0],
                               [name |-> "FAIL", value |-> 1]>>]

DeclVec ==
    [qualifiedName |-> "Vec", kind |-> "struct",
     members |-> <<Member("x", TypeRef("F32", "float")),
                   Member("n", TypeRef("U32", "integer"))>>]

DeclArr(n) ==
    [qualifiedName |-> "Arr", kind |-> "array", size |-> n,
     elementType |-> TypeRef("F32", "float")]

DeclTlm ==
    [qualifiedName |-> "Tlm", kind |-> "struct",
     members |-> <<Member("label", StringRef(8)),
                   Member("samples", TypeRef("Arr", "qualifiedIdentifier"))>>]

DeclOuter ==
    [qualifiedName |-> "Outer", kind |-> "struct",
     members |-> <<Member("note", StringRef(16)),
                   Member("inner", TypeRef("Tlm", "qualifiedIdentifier"))>>]

DeclGrid ==
    [qualifiedName |-> "Ref.Grid", kind |-> "array", size |-> 2,
     elementType |-> TypeRef("Vec", "qualifiedIdentifier")]

TypeDeclPool ==
    {DeclF32, DeclE, DeclVec, DeclTlm, DeclOuter, DeclGrid} \cup {DeclArr(n) : n \in ArraySizes}

\* typeDefinitions lists: qualified names are unique in a dictionary, and the
\* order of declaration is free.
TypeDefinitionLists ==
    UNION {{defs \in [1..n -> TypeDeclPool] :
              \A i, j \in 1..n : defs[i].qualifiedName = defs[j].qualifiedName => i = j} :
           n \in 0..MaxTypes}

Channel(n, t) == [name |-> n, type |-> t]

ChannelLists ==
    {<<Channel("Ref.c.arr", TypeRef("Arr", "qualifiedIdentifier")),
       Channel("Ref.c.tlm", TypeRef("Tlm", "qualifiedIdentifier")),
       Channel("Ref.c.s8", StringRef(8))>>,
     <<Channel("Ref.c.grid", TypeRef("Ref.Grid", "qualifiedIdentifier")),
       Channel("Ref.c.s16", StringRef(16)),
       Channel("Ref.c.arr", TypeRef("Arr", "qualifiedIdentifier")),
       Channel("Ref.c.vec", TypeRef("Vec", "qualifiedIdentifier"))>>}

Param(n, t) == [name |-> n, type |-> t]

CmdNoOp == [name |-> "Ref.cmd.NOOP", opcode |-> 1]

CmdSet ==
    [name |-> "Ref.cmd.SET", opcode |-> 2,
     formalParams |-> <<Param("v", TypeRef("Vec", "qualifiedIdentifier")),
                        Param("s", StringRef(8))>>]

CmdSend ==
    [name |-> "Ref.cmd.SEND", opcode |-> 3,
     formalParams |-> <<Param("n", TypeRef("U32", "integer")),
                        Param("t", TypeRef("Tlm", "qualifiedIdentifier")),
                        Param("s", StringRef(16))>>]

CmdLoad ==
    [name |-> "Ref.cmd.LOAD", opcode |-> 4,
     formalParams |-> <<Param("a", TypeRef("Arr", "qualifiedIdentifier"))>>]

CmdWrap ==
    [name |-> "Ref.cmd.WRAP", opcode |-> 5,
     formalParams |-> <<Param("e", TypeRef("E", "qualifiedIdentifier")),
                        Param("o", TypeRef("Outer", "qualifiedIdentifier"))>>]

CmdGrid ==
    [name |-> "Ref.cmd.GRID", opcode |-> 6,
     formalParams |-> <<Param("g", TypeRef("Ref.Grid", "qualifiedIdentifier"))>>]

CommandLists ==
    {<<CmdSend, CmdNoOp, CmdSet>>,
     <<CmdLoad, CmdWrap, CmdGrid>>,
     <<>>}

Dictionaries ==
    [typeDefinitions : TypeDefinitionLists,
     telemetryChannels : ChannelLists,
     commands : CommandLists]

Packet(i, n, chans) == [id |-> i, name |-> n, channels |-> chans]

PacketCatalogs ==
    {<<Packet(1, "P1", <<"c.arr", "c.tlm", "c.missing">>),
       Packet(2, "P2", <<"c.s8", "c.arr">>)>>,
     <<Packet(7, "Q", <<"c.grid", "c.vec", "c.s16">>)>>,
     <<>>}

(***************************************************************************)
(* main.py: the script.                                                    *)
(***************************************************************************)
\* Where the script goes when a for loop has no (more) items.
EnterCommands(cmds) == IF Len(cmds) > 0 THEN "commands" ELSE "csv"

EnterPackets(pkts, cmds) == IF Len(pkts) > 0 THEN "packets" ELSE EnterCommands(cmds)

EnterPass2(decl, pkts, cmds) == IF Len(decl) > 0 THEN "pass2" ELSE EnterPackets(pkts, cmds)

EnterPass1(decl, pkts, cmds) == IF Len(decl) > 0 THEN "pass1" ELSE EnterPackets(pkts, cmds)

Init ==
    /\ data \in Dictionaries
    /\ packets_xml \in PacketCatalogs
    /\ stringTypes = {}
    /\ types_decl = <<>>
    /\ channels_types = <<>>
    /\ commands = <<>>
    /\ packets = <<>>
    /\ array_sizes = <<>>
    /\ mdb = <<>>
    /\ stdout = <<>>
    /\ pc = "parse"
    /\ idx = 1

\* dict_loader.parse()
Parse ==
    /\ pc = "parse"
    /\ \E order \in Orders(ParseStrings(data)) :
          types_decl' = AddStringTypes(GetTypesDecl(data), order)
    /\ stringTypes' = ParseStrings(data)
    /\ channels_types' = GetChannelTypes(data)
    /\ commands' = GetCommands(data)
    /\ pc' = "strip"
    /\ UNCHANGED <<data, packets_xml, packets, array_sizes, mdb, stdout, idx>>

\* The two remove_prefix_from_dict calls.
StripPrefixes ==
    /\ pc = "strip"
    /\ channels_types' = RemovePrefixFromChannels(channels_types, DeplName \o ".")
    /\ commands' = RemovePrefixFromCommands(commands, DeplName \o ".")
    /\ pc' = "load_packets"
    /\ UNCHANGED <<data, packets_xml, stringTypes, types_decl, packets, array_sizes,
                   mdb, stdout, idx>>

\* packets_loader.get_packets(), the generator's construction, array_sizes = {}
LoadPackets ==
    /\ pc = "load_packets"
    /\ packets' = GetPackets(packets_xml)
    /\ array_sizes' = <<>>
    /\ pc' = EnterPass1(types_decl, packets', commands)
    /\ idx' = 1
    /\ UNCHANGED <<data, packets_xml, stringTypes, types_decl, channels_types,
                   commands, mdb, stdout>>

\* One turn of the first loop over types_decl: enums and natives.
AddLeafType ==
    /\ pc = "pass1"
    /\ LET type_name == types_decl[idx][1]
           type_info == types_decl[idx][2]
       IN mdb' = IF type_info.kind = "enum"
                 THEN Append(mdb, [call |-> "addEnumType", name |-> type_name,
                                   representationtype |-> type_info.representationtype,
                                   values |-> type_info.values])
                 ELSE IF type_info.kind = "native"
                 THEN Append(mdb, [call |-> "addPrimitiveType", name |-> type_name])
                 ELSE mdb
    /\ IF idx < Len(types_decl)
       THEN idx' = idx + 1 /\ pc' = pc
       ELSE idx' = 1 /\ pc' = EnterPass2(types_decl, packets, commands)
    /\ UNCHANGED <<data, packets_xml, stringTypes, types_decl, channels_types,
                   commands, packets, array_sizes, stdout>>

\* One turn of the second loop over types_decl: structs and arrays.
AddCompositeType ==
    /\ pc = "pass2"
    /\ LET type_name == types_decl[idx][1]
           type_info == types_decl[idx][2]
       IN IF type_info.kind = "struct"
          THEN /\ mdb' = Append(mdb, [call |-> "addAggregateType", name |-> type_name,
                                      members |-> type_info.members])
               /\ array_sizes' = array_sizes
          ELSE IF type_info.kind = "array"
          THEN /\ mdb' = Append(mdb, [call |-> "addArrayType", name |-> type_name,
                                      elementType |-> type_info.elementType])
               /\ array_sizes' = Put(array_sizes, type_name, type_info.size)
          ELSE /\ mdb' = mdb
               /\ array_sizes' = array_sizes
    /\ IF idx < Len(types_decl)
       THEN idx' = idx + 1 /\ pc' = pc
       ELSE idx' = 1 /\ pc' = EnterPackets(packets, commands)
    /\ UNCHANGED <<data, packets_xml, stringTypes, types_decl, channels_types,
                   commands, packets, stdout>>

\* One turn of the packet loop: the TMPacket, its fields, addTMTC.
AddPacket ==
    /\ pc = "packets"
    /\ LET packet_id == packets[idx][1]
           packet_info == packets[idx][2]
       IN mdb' = Append(mdb, [call |-> "addTMTC", kind |-> "TMPacket",
                              name |-> packet_info.name, id |-> packet_id,
                              fields |-> PacketFields(packet_info.channels,
                                                      channels_types, array_sizes)])
    /\ IF idx < Len(packets)
       THEN idx' = idx + 1 /\ pc' = pc
       ELSE idx' = 1 /\ pc' = EnterCommands(commands)
    /\ UNCHANGED <<data, packets_xml, stringTypes, types_decl, channels_types,
                   commands, packets, array_sizes, stdout>>

\* Faulty variant: a rejected command ends the run.
AddCommandFatal ==
    /\ pc = "commands"
    /\ LET cmd_name == commands[idx][1]
           cmd_info == commands[idx][2]
           first == FirstArrayArg(cmd_info.args, types_decl)
       IN IF ~ContainsArrayArg(cmd_info.args, types_decl)
          THEN /\ mdb' = Append(mdb, [call |-> "addTMTC", kind |-> "Command",
                                      name |-> cmd_name, opcode |-> cmd_info.opcode,
                                      params |-> CommandParams(cmd_info.args, types_decl)])
               /\ stdout' = stdout
               /\ IF idx < Len(commands)
                  THEN idx' = idx + 1 /\ pc' = pc
                  ELSE idx' = 1 /\ pc' = "csv"
          ELSE /\ mdb' = mdb
               /\ stdout' = stdout \o
                     <<[msg |-> "Detected that type contains array",
                        name |-> cmd_info.args[first][2]],
                       [msg |-> "Ignoring command", name |-> cmd_name]>>
               /\ idx' = idx
               /\ pc' = "exit"
    /\ UNCHANGED <<data, packets_xml, stringTypes, types_decl, channels_types,
                   commands, packets, array_sizes>>

\* One turn of the command loop: the scan of the arguments, then addTMTC or
\* the two printed lines.
AddCommand ==
    /\ pc = "commands"
    /\ LET cmd_name == commands[idx][1]
           cmd_info == commands[idx][2]
           first == FirstArrayArg(cmd_info.args, types_decl)
       IN IF ~ContainsArrayArg(cmd_info.args, types_decl)
          THEN /\ mdb' = Append(mdb, [call |-> "addTMTC", kind |-> "Command",
                                      name |-> cmd_name, opcode |-> cmd_info.opcode,
                                      params |-> CommandParams(cmd_info.args, types_decl)])
               /\ stdout' = stdout
          ELSE /\ mdb' = mdb
               /\ stdout' = stdout \o
                     <<[msg |-> "Detected that type contains array",
                        name |-> cmd_info.args[first][2]],
                       [msg |-> "Ignoring command", name |-> cmd_name]>>
    /\ IF idx < Len(commands)
       THEN idx' = idx + 1 /\ pc' = pc
       ELSE idx' = 1 /\ pc' = "csv"
    /\ UNCHANGED <<data, packets_xml, stringTypes, types_decl, channels_types,
                   commands, packets, array_sizes>>

\* yamcs_gen.generateCSVs() and the closing line.
GenerateCSVs ==
    /\ pc = "csv"
    /\ mdb' = Append(mdb, [call |-> "generateCSVs"])
    /\ stdout' = Append(stdout, [msg |-> "saved", name |-> DeplName])
    /\ pc' = "done"
    /\ UNCHANGED <<data, packets_xml, stringTypes, types_decl, channels_types,
                   commands, packets, array_sizes, idx>>

Next ==
    \/ Parse
    \/ StripPrefixes
    \/ LoadPackets
    \/ AddLeafType
    \/ AddCompositeType
    \/ AddPacket
    \/ AddCommand
    \/ GenerateCSVs

Spec == Init /\ [][Next]_vars

(***************************************************************************)
(* Views of the run used by the properties.                                *)
(***************************************************************************)
IsCommandCall(c) == c.call = "addTMTC" /\ c.kind = "Command"

IsPacketCall(c) == c.call = "addTMTC" /\ c.kind = "TMPacket"

IsTypeCall(c) ==
    c.call \in {"addEnumType", "addPrimitiveType", "addAggregateType", "addArrayType"}

CommandCalls == SelectSeq(mdb, IsCommandCall)

PacketCalls == SelectSeq(mdb, IsPacketCall)

\* parse() has returned.
Parsed == pc # "parse"

\* Both loops over types_decl are over.
TypesEmitted == pc \in {"packets", "commands", "csv", "done"}

\* The command loop has dealt with the k-th command.
CommandProcessed(k) == (pc = "commands" /\ k < idx) \/ pc \in {"csv", "done"}

\* How many packets the packet loop has dealt with.
PacketsProcessed ==
    IF pc = "packets" THEN idx - 1
    ELSE IF pc \in {"commands", "csv", "done"} THEN Len(packets) ELSE 0

Eligible(args) ==
    \A i \in 1..Len(args) : ~type_contains_array(args[i][2], types_decl)

EmittedAs(name) == {i \in 1..Len(CommandCalls) : CommandCalls[i].name = name}

IgnoredAt(name) ==
    {i \in 1..Len(stdout) : stdout[i].msg = "Ignoring command" /\ stdout[i].name = name}

(***************************************************************************)
(* C1: command emission is all-or-nothing.  Every command the loop has     *)
(* dealt with was handed to addTMTC iff no argument type contains an       *)
(* array; an emitted command carries all its arguments in declared order,  *)
(* a rejected one appears nowhere in the generator's calls.                *)
(***************************************************************************)
C1_AllOrNothing ==
    \A k \in 1..Len(commands) :
        CommandProcessed(k) =>
            LET name == commands[k][1]
                info == commands[k][2]
            IN /\ (EmittedAs(name) # {}) <=> Eligible(info.args)
               /\ \A i \in EmittedAs(name) :
                     /\ CommandCalls[i].params = info.args
                     /\ CommandCalls[i].opcode = info.opcode

\* A run in which one command went out with two arguments and another was
\* rejected on an argument that is not its first.
C1_Witness ==
    /\ pc = "done"
    /\ \E i \in 1..Len(CommandCalls) : Len(CommandCalls[i].params) = 2
    /\ \E k \in 1..Len(commands) :
          /\ FirstArrayArg(commands[k][2].args, types_decl) > 1
          /\ EmittedAs(commands[k][1]) = {}

(***************************************************************************)
(* C2: on the (acyclic) type table of the run, type_contains_array(T) is   *)
(* true iff T is an array entry or a struct entry with a member whose type *)
(* contains an array; false for native, enum and absent names.  The table  *)
(* is looked at when parse() has returned it; it never changes later.      *)
(***************************************************************************)
\* The names that contain an array, computed bottom-up: arrays first, then
\* structs with a member already in the set, for n rounds.
RECURSIVE ArrayHolders(_, _)
ArrayHolders(decl, n) ==
    IF n = 0 THEN {t \in Keys(decl) : Get(decl, t).kind = "array"}
    ELSE LET below == ArrayHolders(decl, n - 1)
         IN below \cup {t \in Keys(decl) :
                           /\ Get(decl, t).kind = "struct"
                           /\ TypeRefs(Get(decl, t)) \cap below # {}}

\* C2: type_contains_array obeys the recursive characterisation on every name
\* of the table, is false on leaves and absent names, and agrees with ArrayHolders.
C2_ContainmentCorrect ==
    pc = "strip" =>
        \A t \in TableNames(types_decl) :
            LET kind == KindOf(types_decl, t)
                result == type_contains_array(t, types_decl)
            IN /\ result <=>
                     \/ kind = "array"
                     \/ /\ kind = "struct"
                        /\ \E m \in TypeRefs(Get(types_decl, t)) :
                              type_contains_array(m, types_decl)
               /\ kind \in {"native", "enum", "absent"} => ~result
               /\ result <=> t \in ArrayHolders(types_decl, Len(types_decl))

\* A table with an array two structs deep, a struct without any array, an
\* enum and a name that is not declared.
C2_Witness ==
    /\ Parsed
    /\ KindOf(types_decl, "Outer") = "struct"
    /\ KindOf(types_decl, "Tlm") = "struct"
    /\ KindOf(types_decl, "Arr") = "array"
    /\ type_contains_array("Outer", types_decl)
    /\ ~type_contains_array("string16", types_decl)
    /\ ~type_contains_array("F32", types_decl)

(***************************************************************************)
(* C3: closure.  In the table parse() returns, every name an entry refers  *)
(* to (member types, element type, representation type) is a key.          *)
(***************************************************************************)
C3_Closure ==
    Parsed =>
        \A i \in 1..Len(types_decl) : TypeRefs(types_decl[i][2]) \subseteq Keys(types_decl)

(***************************************************************************)
(* C4: dependency order.  Every addAggregateType / addArrayType call comes *)
(* after the call that defines each type it refers to, for the referred    *)
(* types that are in the table.                                            *)
(***************************************************************************)
CallRefs(c) ==
    IF c.call = "addAggregateType" THEN {c.members[i][2] : i \in 1..Len(c.members)}
    ELSE IF c.call = "addArrayType" THEN {c.elementType}
    ELSE {}

\* C4: every type a composite call refers to, if in the table, was defined by
\* an earlier call.
C4_DependencyOrder ==
    \A i \in 1..Len(mdb) :
        \A r \in CallRefs(mdb[i]) \cap Keys(types_decl) :
            \E j \in 1..(i - 1) : IsTypeCall(mdb[j]) /\ mdb[j].name = r

(***************************************************************************)
(* C5 as stated: a packet field whose channel type is a struct with an     *)
(* array member is a repeated field of that array's declared size.         *)
(***************************************************************************)
StructWithArrayMember(t) ==
    /\ KindOf(types_decl, t) = "struct"
    /\ \E m \in TypeRefs(Get(types_decl, t)) : KindOf(types_decl, m) = "array"

PacketFieldsEmitted ==
    UNION {{PacketCalls[k].fields[i] : i \in 1..Len(PacketCalls[k].fields)} :
             k \in 1..Len(PacketCalls)}

\* C5 as stated: such a field is addArray with the contained array's size.
C5_StructChannelExpands ==
    \A f \in PacketFieldsEmitted :
        StructWithArrayMember(f.type) =>
            /\ f.call = "addArray"
            /\ \E m \in TypeRefs(Get(types_decl, f.type)) :
                  /\ KindOf(types_decl, m) = "array"
                  /\ f.length = Get(types_decl, m).size

(***************************************************************************)
(* C5 amended: a packet field whose channel type is a struct with an array *)
(* member is a scalar (addParam) field typed by the struct's name, with no *)
(* length: a struct name is never a key of the array-size index.  A        *)
(* command taking the same struct type as an argument is rejected.         *)
(***************************************************************************)
\* C5 amended: such a field is addParam without length, and a command taking
\* the struct is ignored.
C5_StructChannelIsScalar ==
    /\ \A f \in PacketFieldsEmitted :
          StructWithArrayMember(f.type) =>
              /\ f.call = "addParam"
              /\ "length" \notin DOMAIN f
              /\ ~HasKey(array_sizes, f.type)
    /\ \A k \in 1..Len(commands) :
          (/\ CommandProcessed(k)
           /\ \E i \in 1..Len(commands[k][2].args) :
                 StructWithArrayMember(commands[k][2].args[i][2]))
             => /\ EmittedAs(commands[k][1]) = {}
                /\ IgnoredAt(commands[k][1]) # {}

\* Telemetry{samples: F32[10]}: the channel went into a packet and the
\* command taking Tlm was ignored.
C5_Witness ==
    /\ pc = "done"
    /\ StructWithArrayMember("Tlm")
    /\ KindOf(types_decl, "Arr") = "array"
    /\ Get(types_decl, "Arr").size = 10
    /\ \E f \in PacketFieldsEmitted : f.name = "c.tlm" /\ f.type = "Tlm"
    /\ IgnoredAt("cmd.SEND") # {}

(***************************************************************************)
(* C6: a packet that lists a channel missing from the channel mapping gets *)
(* an unknown-typed field for it, a diagnostic naming the channel is       *)
(* printed, and the run goes on to its end.                                *)
(***************************************************************************)
C6_UnknownChannelReported ==
    pc = "done" =>
        \A f \in PacketFieldsEmitted :
            f.type = NoneVal =>
                /\ f.call = "addParam"
                /\ \E i \in 1..Len(stdout) : stdout[i].name = f.name

(***************************************************************************)
(* C7: an array declared with a size of zero or less yields no type table  *)
(* entry, no array-size index entry and no addArrayType call.              *)
(***************************************************************************)
BadArrayNames ==
    {data.typeDefinitions[i].qualifiedName :
       i \in {j \in 1..Len(data.typeDefinitions) :
                /\ data.typeDefinitions[j].kind = "array"
                /\ data.typeDefinitions[j].size <= 0}}

\* C7: nothing is produced from an array declaration of size zero or less.
C7_NonPositiveSizeRejected ==
    \A n \in BadArrayNames :
        /\ ~HasKey(types_decl, n)
        /\ ~HasKey(array_sizes, n)
        /\ \A i \in 1..Len(mdb) : ~(mdb[i].call = "addArrayType" /\ mdb[i].name = n)

(***************************************************************************)
(* C8: string interning.  In what parse() returns, two string references   *)
(* with the same base name and size have the same resolved name wherever   *)
(* they occur (struct member, element type, representation type, channel,  *)
(* command argument); with the same base name and different sizes they     *)
(* have different names; every such name is a native key of the table.     *)
(***************************************************************************)
\* <<reference as declared, name at the same place in parse()'s result>>
MemberSites ==
    UNION {{<<data.typeDefinitions[k].members[i][2].type,
              Get(types_decl, data.typeDefinitions[k].qualifiedName).members[i][2]>> :
               i \in 1..Len(data.typeDefinitions[k].members)} :
           k \in {j \in 1..Len(data.typeDefinitions) :
                    data.typeDefinitions[j].kind = "struct"}}

ElementSites ==
    {<<data.typeDefinitions[k].elementType,
       Get(types_decl, data.typeDefinitions[k].qualifiedName).elementType>> :
       k \in {j \in 1..Len(data.typeDefinitions) : data.typeDefinitions[j].kind = "array"}}

RepresentationSites ==
    {<<data.typeDefinitions[k].representationType,
       Get(types_decl, data.typeDefinitions[k].qualifiedName).representationtype>> :
       k \in {j \in 1..Len(data.typeDefinitions) : data.typeDefinitions[j].kind = "enum"}}

ChannelSites ==
    {<<data.telemetryChannels[k].type,
       Get(channels_types, data.telemetryChannels[k].name)>> :
       k \in 1..Len(data.telemetryChannels)}

ParamSites ==
    UNION {{<<FormalParams(data.commands[k])[j].type,
              Get(commands, data.commands[k].name).args[j][2]>> :
               j \in 1..Len(FormalParams(data.commands[k]))} :
           k \in 1..Len(data.commands)}

IsStringSite(s) == s[1].kind = "string"

StringSites ==
    {s \in MemberSites \cup ElementSites \cup RepresentationSites
             \cup ChannelSites \cup ParamSites : IsStringSite(s)}

\* C8: same base name and size, same name everywhere; different sizes,
\* different names; all of them native keys of the table.
C8_StringInterning ==
    pc = "strip" =>
        /\ \A s1, s2 \in StringSites :
              s1[1].name = s2[1].name =>
                  (s1[1].size = s2[1].size <=> s1[2] = s2[2])
        /\ \A s \in StringSites :
              /\ s[2] \in stringTypes
              /\ KindOf(types_decl, s[2]) = "native"
        /\ \A a, b \in 0..MaxStrSize :
              a # b => FormatTypeName(StringRef(a)) # FormatTypeName(StringRef(b))

\* string(8) in a struct member, a channel and a command argument of one
\* dictionary, next to a string(16).
C8_Witness ==
    /\ pc = "strip"
    /\ \E s \in MemberSites : IsStringSite(s) /\ s[1].size = 8
    /\ \E s \in ChannelSites : IsStringSite(s) /\ s[1].size = 8
    /\ \E s \in ParamSites : IsStringSite(s) /\ s[1].size = 8
    /\ \E s \in StringSites : s[1].size = 16

(***************************************************************************)
(* C9: packet fields.  Each packet dealt with has one field per listed     *)
(* channel, in listed order; the field is addArray with length L iff the   *)
(* channel's type is a key of array_sizes with value L, addParam           *)
(* otherwise; after the type loops array_sizes holds exactly the array     *)
(* entries of the type table with their declared sizes.                    *)
(***************************************************************************)
ArrayEntries == {t \in Keys(types_decl) : Get(types_decl, t).kind = "array"}

\* C9: one field per listed channel, in order, addArray with the indexed size
\* iff the type is in array_sizes; array_sizes is exactly the array entries.
C9_PacketFields ==
    /\ Len(PacketCalls) = PacketsProcessed
    /\ \A k \in 1..Len(PacketCalls) :
          LET call == PacketCalls[k]
              info == packets[k][2]
          IN /\ call.id = packets[k][1]
             /\ call.name = info.name
             /\ Len(call.fields) = Len(info.channels)
             /\ \A i \in 1..Len(call.fields) :
                   LET f == call.fields[i]
                       t == GetOrNone(channels_types, info.channels[i])
                   IN /\ f.name = info.channels[i]
                      /\ f.type = t
                      /\ IF HasKey(array_sizes, t)
                         THEN f.call = "addArray" /\ f.length = Get(array_sizes, t)
                         ELSE f.call = "addParam"
    /\ TypesEmitted =>
          /\ Keys(array_sizes) = ArrayEntries
          /\ \A t \in ArrayEntries : Get(array_sizes, t) = Get(types_decl, t).size

\* A packet of three fields: a length-10 array, a scalar and an unknown one.
C9_Witness ==
    /\ pc = "done"
    /\ \E k \in 1..Len(PacketCalls) :
          /\ Len(PacketCalls[k].fields) = 3
          /\ \E i \in 1..3 : /\ PacketCalls[k].fields[i].call = "addArray"
                             /\ PacketCalls[k].fields[i].length = 10
          /\ \E i \in 1..3 : PacketCalls[k].fields[i].call = "addParam"

(***************************************************************************)
(* C10: rejection is local.  At every point each command dealt with was    *)
(* either emitted once (iff eligible) or reported as ignored once, right   *)
(* after the line naming the offending argument type, never both, and the  *)
(* commands not yet dealt with were neither.  The command loop and the     *)
(* serialization step are never stuck, every step brings the run closer to *)
(* its end (a later phase, or the next item of the running loop), and the  *)
(* end comes with generateCSVs as the last call: so every command is dealt *)
(* with and the serialization step is reached whatever was rejected.       *)
(***************************************************************************)
C10_EmittedOrIgnored ==
    \A k \in 1..Len(commands) :
        LET name == commands[k][1]
            args == commands[k][2].args
            emitted == Cardinality(EmittedAs(name))
            ignored == Cardinality(IgnoredAt(name))
        IN IF CommandProcessed(k)
           THEN /\ emitted + ignored = 1
                /\ emitted = 1 <=> Eligible(args)
                /\ \A i \in IgnoredAt(name) :
                      /\ i > 1
                      /\ stdout[i - 1].msg = "Detected that type contains array"
                      /\ \E j \in 1..Len(args) : args[j][2] = stdout[i - 1].name
                      /\ type_contains_array(stdout[i - 1].name, types_decl)
           ELSE emitted + ignored = 0

C10_Finished ==
    /\ pc = "done"
    /\ mdb[Len(mdb)].call = "generateCSVs"
    /\ \A k \in 1..Len(commands) : CommandProcessed(k)

\* From the command loop on, the step the script is at can be taken.
C10_NeverStuck ==
    /\ pc \in {"parse", "strip", "load_packets", "pass1", "pass2", "packets",
               "commands", "csv", "done"}
    /\ pc = "commands" => ENABLED AddCommand
    /\ pc = "csv" => ENABLED GenerateCSVs
    /\ pc = "done" => C10_Finished

PhaseRank(p) ==
    CASE p = "parse" -> 8 [] p = "strip" -> 7 [] p = "load_packets" -> 6
      [] p = "pass1" -> 5 [] p = "pass2" -> 4 [] p = "packets" -> 3
      [] p = "commands" -> 2 [] p = "csv" -> 1 [] p = "done" -> 0
      [] OTHER -> 9

LoopLength(p) ==
    CASE p \in {"pass1", "pass2"} -> Len(types_decl)
      [] p = "packets" -> Len(packets)
      [] p = "commands" -> Len(commands)
      [] OTHER -> 1

C10_Progress ==
    \/ PhaseRank(pc') < PhaseRank(pc)
    \/ pc' = pc /\ idx' = idx + 1 /\ idx' <= LoopLength(pc)

\* C10: each command is emitted or ignored, never both; the run is not stopped
\* by a rejection and every step advances it towards generateCSVs.
C10_RejectionIsLocal ==
    [](C10_EmittedOrIgnored /\ C10_NeverStuck) /\ [][C10_Progress]_vars

\* A finished run in which a command was ignored and a later one emitted.
C10_Witness ==
    /\ C10_Finished
    /\ \E k1, k2 \in 1..Len(commands) :
          /\ k1 < k2
          /\ IgnoredAt(commands[k1][1]) # {}
          /\ EmittedAs(commands[k2][1]) # {}

====
